---- MODULE Spec2Model ----
(***************************************************************************)
(* The BLE session manager of src/ble-script.py: one asyncio lock          *)
(* (_tx_lock) serialising connect / write / disconnect, the cached         *)
(* peripheral (_resolved_device), the connection handle (_client), the     *)
(* idle timeout (_idle_timeout_s) and the idle-disconnect task             *)
(* (_idle_task).                                                           *)
(*                                                                         *)
(* asyncio is cooperative: code between two awaits that really suspend is  *)
(* atomic.  Every action below runs one coroutine from the point where it  *)
(* was suspended to its next suspension (a contended lock, a scan, a       *)
(* connect, a transport disconnect, a write, a sleep) or to its end.       *)
(* The operators work on a record s holding the program's globals; an      *)
(* action computes the record after the run and stores it with Set.        *)
(***************************************************************************)
EXTENDS Integers, Sequences, FiniteSets, TLC

\* Bounds of the model.
NumCallers == 2
MaxTasks == 2
MaxScan == 2

\* Python's None.  Every value that may be None is a tuple or a record, so None
\* is the empty tuple: an absent device name and the empty name are both <<>>,
\* as they are after line 46.
None == <<>>

\* The coroutines: the callers of the public operations and the task objects
\* asyncio.create_task hands out for _idle_disconnect_worker.
Callers == {<<"caller", i>> : i \in 1..NumCallers}
Tasks == {<<"task", i>> : i \in 1..MaxTasks}
Procs == Callers \cup Tasks

VARIABLES _tx_lock, _resolved_device, _client, _idle_timeout_s, _idle_task,
          task, caller, transport

vars == <<_tx_lock, _resolved_device, _client, _idle_timeout_s, _idle_task,
          task, caller, transport>>

-----------------------------------------------------------------------------
\* Names are sequences of one-character strings.
MELK_OA21 == <<"M", "E", "L", "K", "-", "O", "A", "2", "1">>
MELK_NAMES == <<MELK_OA21>>

\* A float number of seconds, counted in tenths of a second.
Float(tenths) == [tenths |-> tenths]

DEFAULT_IDLE_TIMEOUT_S == Float(3000)

\* str.lower() on the characters the model uses.
LowerChar(ch) ==
    CASE ch = "M" -> "m" [] ch = "E" -> "e" [] ch = "L" -> "l"
      [] ch = "K" -> "k" [] ch = "O" -> "o" [] ch = "A" -> "a"
      [] ch = "X" -> "x" [] OTHER -> ch

Lower(str) == [i \in DOMAIN str |-> LowerChar(str[i])]

\* str.strip(): drop leading and trailing blanks.
Strip(str) ==
    LET keep == {i \in DOMAIN str : str[i] # " "}
    IN  IF keep = {} THEN <<>>
        ELSE LET lo == CHOOSE i \in keep : \A j \in keep : i <= j
                 hi == CHOOSE i \in keep : \A j \in keep : j <= i
             IN  SubSeq(str, lo, hi)

\* sub in str
Contains(sub, str) ==
    \E i \in 0..(Len(str) - Len(sub)) : SubSeq(str, i + 1, i + Len(sub)) = sub

\* Lines 46-47: the name test of resolve_device_address.
NameMatches(devname) ==
    LET name == Strip(IF devname = None THEN <<>> ELSE devname)
    IN  \E k \in DOMAIN MELK_NAMES : Contains(Lower(MELK_NAMES[k]), Lower(name))

\* Lines 45-49: the first device of the scan result whose name matches, or None.
FirstMatch(devices) ==
    LET hits == {i \in DOMAIN devices : NameMatches(devices[i].name)}
    IN  IF hits = {} THEN None
        ELSE devices[CHOOSE i \in hits : \A j \in hits : i <= j]

-----------------------------------------------------------------------------
\* What the environment can advertise and ask for.
Device(name, address) == [name |-> name, address |-> address]

Devices ==
    { Device(MELK_OA21, "AA:BB"),
      Device(<<" ", "m", "e", "l", "k", "-", "o", "a", "2", "1", "X">>, "CC:DD"),
      Device(<<"O", "t", "h", "e", "r">>, "AA:BB"),
      Device(<<"M", "E", "L", "K">>, "CC:DD"),
      Device(None, "CC:DD") }

ScanResults == UNION {[1..n -> Devices] : n \in 0..MaxScan}

IdleValues == {None, Float(0), Float(50)}

\* The R G B arguments of the "color" command: each channel out of range in
\* turn, on either side of the range, and a colour that is in range.
RGBs == {<<300, 0, 0>>, <<0, 256, 0>>, <<0, 0, -1>>, <<255, 0, 255>>}

Ops == {"ensure_connected", "disconnect", "reconnect", "connection_status",
        "set_idle_timeout", "send"}

-----------------------------------------------------------------------------
\* The state as one record.
Cur ==
    [ tx_lock |-> _tx_lock, resolved_device |-> _resolved_device,
      client |-> _client, idle_timeout_s |-> _idle_timeout_s,
      idle_task |-> _idle_task, task |-> task, caller |-> caller,
      transport |-> transport ]

\* A coroutine that has just ended is off the event loop before anything else
\* runs: a finished operation hands its result to its caller without yielding,
\* and a finished or cancelled task has no step left that touches the session.
\* A rejected "color" command never was an operation on the session.
Ended == {"cancelled_in_sleep", "cancelled_in_lock", "returned", "notified", "raised"}

Quiet ==
    /\ \A c \in Callers : caller[c].pc = "done" => caller[c].op = "color"
    /\ \A t \in Tasks : task[t].st \notin Ended

Set(s) ==
    /\ Quiet
    /\ s.idle_task # <<"task", 0>>
    /\ _tx_lock' = s.tx_lock
    /\ _resolved_device' = s.resolved_device
    /\ _client' = s.client
    /\ _idle_timeout_s' = s.idle_timeout_s
    /\ _idle_task' = s.idle_task
    /\ task' = s.task
    /\ caller' = s.caller
    /\ transport' = s.transport

IdleCaller ==
    [ pc |-> "idle", op |-> "", value |-> None, attempt |-> 0,
      last_error |-> None, writes |-> 0, site |-> "", result |-> None ]

NoTask == [st |-> "none", timeout_s |-> None]

Init ==
    /\ _tx_lock = [locked |-> FALSE, waiters |-> <<>>]
    /\ _resolved_device = None
    /\ _client = None
    /\ _idle_timeout_s = DEFAULT_IDLE_TIMEOUT_S
    /\ _idle_task = None
    /\ task = [t \in Tasks |-> NoTask]
    /\ caller = [c \in Callers |-> IdleCaller]
    /\ transport = [connected |-> FALSE, orphans |-> FALSE]

-----------------------------------------------------------------------------
\* Mutant: the lock is taken without looking at it.
LockFree_Unchecked(s) == TRUE

\* asyncio.Lock (line 16): acquire takes the lock at once only when it is not
\* held and nobody is queued; otherwise the caller queues, first in first out.
LockFree(s) == ~s.tx_lock.locked /\ s.tx_lock.waiters = <<>>

\* Mutant: the lock is entered but not marked as held.
Acquire_NotHeld(s) == s

Acquire(s) == [s EXCEPT !.tx_lock.locked = TRUE]

Release(s) == [s EXCEPT !.tx_lock.locked = FALSE]

Enqueue(s, self) == [s EXCEPT !.tx_lock.waiters = Append(@, self)]

\* A coroutine suspends at an await: callers record where, and the call site
\* a pending transport disconnect returns to; the worker only ever suspends
\* in its transport disconnect.
Suspend(s, self, pc, site) ==
    IF self \in Callers
    THEN [s EXCEPT !.caller[self].pc = pc, !.caller[self].site = site]
    ELSE [s EXCEPT !.task[self].st = pc]

\* An exception: its type and str(), the text as a tuple of its parts.
Exception(type, msg) == [type |-> type, msg |-> msg]

\* Line 51.
NotFound == Exception("RuntimeError", <<"No BLE device found matching names: MELK-OA21">>)

\* Line 122.
FailedToConnect == Exception("RuntimeError", <<"Failed to connect">>)

\* asyncio.wait_for gave up on the connect (line 120).
ConnectTimeout == Exception("TimeoutError", <<"">>)

\* An exception of the transport (bleak) in the named call.
TransportError(call) == Exception("BleakError", <<call>>)

\* What a public operation hands its caller: the exception it raised or the
\* value it returned (None for the operations that return nothing).
Returned(value, printed) == [raised |-> None, value |-> value, printed |-> printed]
Raised(exc) == [raised |-> exc, value |-> None, printed |-> None]

\* The coroutine of a public operation ends: the lock is released on the way
\* out of "async with" and the result (or the exception) reaches the caller.
Finish(s, self, res) ==
    [Release(s) EXCEPT !.caller[self].pc = "done",
                       !.caller[self].site = "",
                       !.caller[self].result = res]

\* The worker task ends and releases the lock on its way out: it returned at
\* line 78 ("returned"), printed "auto-disconnected" and returned
\* ("notified"), or died of an exception ("raised").
EndTask(s, t, st) == [Release(s) EXCEPT !.task[t] = [st |-> st, timeout_s |-> None]]

\* An exception no handler of the coroutine catches.
Raise(s, self, exc) ==
    IF self \in Callers THEN Finish(s, self, Raised(exc)) ELSE EndTask(s, self, "raised")

\* Mutant: the channels are not range-checked.
pkt_color_Unchecked(r, g, b) ==
    Returned(<<126, 0, 5, 3, r, g, b, 0, 239>>, None)

\* Lines 27-31: the colour packet, or ValueError for a channel out of 0..255.
pkt_color(r, g, b) ==
    IF \E v \in {r, g, b} : ~(0 <= v /\ v <= 255)
    THEN Raised(Exception("ValueError", <<"RGB values must be in 0..255">>))
    ELSE Returned(<<126, 0, 5, 3, r, g, b, 0, 239>>, None)

-----------------------------------------------------------------------------
\* Task.cancel() on the idle worker: cancelled in its sleep it returns
\* (lines 72-73); cancelled while queued for the lock it leaves the queue with
\* CancelledError.  Either way it touches nothing any more.
TaskCancel(s, t) ==
    IF s.task[t].st \in {"sleep", "lock"}
    THEN [s EXCEPT !.task[t] = [st |-> "cancelled_in_" \o s.task[t].st, timeout_s |-> None],
                   !.tx_lock.waiters = SelectSeq(@, LAMBDA p : p # t)]
    ELSE s

\* Mutant: the token is dropped but the task is not cancelled.
_cancel_idle_task_locked_NoCancel(s, self) == [s EXCEPT !.idle_task = None]

\* Mutant: the task is cancelled but the token still names it.
_cancel_idle_task_locked_KeepToken(s, self) ==
    IF s.idle_task = None THEN s
    ELSE IF s.idle_task # self THEN TaskCancel(s, s.idle_task) ELSE s

\* Lines 60-66.
_cancel_idle_task_locked(s, self) ==
    IF s.idle_task = None THEN s
    ELSE [(IF s.idle_task # self THEN TaskCancel(s, s.idle_task) ELSE s)
            EXCEPT !.idle_task = None]

\* asyncio.create_task: a task object that is not in use.
NoSlot == <<"task", 0>>

FreeTasks(s) ==
    {t \in Tasks : s.task[t].st = "none"}

NewTask(s) ==
    IF FreeTasks(s) = {} THEN NoSlot
    ELSE CHOOSE t \in FreeTasks(s) : \A u \in FreeTasks(s) : t[2] <= u[2]

\* Lines 83-93.
_arm_idle_timer_locked(s, self) ==
    LET s1 == _cancel_idle_task_locked(s, self)
    IN  IF s1.client = None \/ ~s1.transport.connected THEN s1
        ELSE IF s1.idle_timeout_s = None THEN s1
        ELSE IF s1.idle_timeout_s.tenths <= 0 THEN s1
        ELSE LET t == NewTask(s1)
             IN  IF t = NoSlot THEN [s1 EXCEPT !.idle_task = NoSlot]
                 ELSE [s1 EXCEPT !.idle_task = t,
                                 !.task[t] = [st |-> "sleep", timeout_s |-> s1.idle_timeout_s]]

\* Mutant: the handle is cleared only when the transport disconnect returned.
DisconnectFinally_NotFinally(s, outcome) ==
    IF outcome = "ok"
    THEN [s EXCEPT !.client = None,
                   !.transport = [connected |-> FALSE,
                                  orphans |-> @.orphans \/ @.connected]]
    ELSE s

\* Lines 104-105: the finally clause of _disconnect_client, run whether the
\* transport disconnect returned ("ok") or raised ("error").  A link still up
\* when the handle is dropped is no longer referenced by the session.
DisconnectFinally(s, outcome) ==
    [s EXCEPT !.client = None,
              !.transport = [connected |-> FALSE,
                             orphans |-> @.orphans \/ @.connected]]

\* Mutant: the cached device survives a failed attempt.
InvalidateCache_Kept(s) == s

\* Line 129.
InvalidateCache(s) == [s EXCEPT !.resolved_device = None]

\* Mutant: the last cause is raised again as it is.
ConnectError_Reraise(last_error) == last_error

\* Line 132.
ConnectError(last_error) ==
    Exception("RuntimeError",
              <<"Unable to connect: ">> \o (IF last_error = None THEN <<"None">> ELSE last_error.msg))

\* Line 119 and the start of line 120.
StartConnect(s, self, address) ==
    Suspend([s EXCEPT !.client = [address |-> address],
                      !.transport.connected = FALSE],
            self, "connect", "")

\* Line 116 to the first await of an attempt: resolve_device_address returns
\* the cached address (lines 41-42) or scans (line 44).
Attempt(s, self, n) ==
    LET s1 == [s EXCEPT !.caller[self].attempt = n]
    IN  IF s1.resolved_device # None
        THEN StartConnect(s1, self, s1.resolved_device.address)
        ELSE Suspend(s1, self, "scan", "")

\* Lines 172-174 / 177-178: the write that follows _ensure_connected in send.
StartWrite(s, self) ==
    Suspend([s EXCEPT !.caller[self].writes = @ + 1], self, "write", "")

RECURSIVE Resume(_, _, _)
RECURSIVE _disconnect_client(_, _, _)
RECURSIVE _ensure_connected(_, _)

\* Lines 96-105, up to the await of the transport disconnect.
_disconnect_client(s, self, site) ==
    LET s1 == _cancel_idle_task_locked(s, self)
    IN  IF s1.client = None THEN Resume(s1, self, site)
        ELSE IF s1.transport.connected THEN Suspend(s1, self, "tdisc", site)
        ELSE Resume(DisconnectFinally(s1, "ok"), self, site)

\* Lines 108-114.
_ensure_connected(s, self) ==
    IF s.client # None /\ s.transport.connected
    THEN Resume(_arm_idle_timer_locked(s, self), self, "ensured")
    ELSE _disconnect_client(s, self, "ensure114")

\* What runs when an awaited coroutine returns normally to its call site.
Resume(s, self, site) ==
    CASE site = "ensure114" ->
           Attempt([s EXCEPT !.caller[self].last_error = None], self, 1)
      [] site = "ensure127" ->
           LET s1 == InvalidateCache(s)
           IN  IF s1.caller[self].attempt = 2
               THEN Raise(s1, self, ConnectError(s1.caller[self].last_error))
               ELSE Attempt(s1, self, 2)
      [] site = "ensured" ->
           IF s.caller[self].op = "send" THEN StartWrite(s, self)
           ELSE Finish(s, self, Returned(None, None))
      [] site = "disconnect142" -> Finish(s, self, Returned(None, None))
      [] site \in {"reconnect147", "send176"} -> _ensure_connected(s, self)
      [] site = "worker79" -> EndTask(s, self, "notified")

\* Mutant: the cause of the first failed attempt is the one kept.
AttemptFailed_KeepFirst(s, self, cause) ==
    _disconnect_client([s EXCEPT !.caller[self].last_error = IF @ = None THEN cause ELSE @],
                       self, "ensure127")

\* Mutant: a failed attempt is not cleaned up after.
AttemptFailed_NoCleanup(s, self, cause) ==
    Resume([s EXCEPT !.caller[self].last_error = cause], self, "ensure127")

\* Lines 125-127: an attempt failed with cause.
AttemptFailed(s, self, cause) ==
    _disconnect_client([s EXCEPT !.caller[self].last_error = cause], self, "ensure127")

-----------------------------------------------------------------------------
\* Lines 39-51, from the return of the scan (line 44) on.
resolve_device_address(s, self, devices) ==
    LET device == FirstMatch(devices)
    IN  IF device # None
        THEN StartConnect([s EXCEPT !.resolved_device = device], self, device.address)
        ELSE AttemptFailed(s, self, NotFound)

\* Lines 120-124, from the return of wait_for(_client.connect()) on.  The
\* connect ends connected ("ok"), returns without a live link ("notlive"),
\* raises ("error"), or is given up by wait_for ("timeout").
ConnectOutcomes == {"ok", "notlive", "error", "timeout"}

\* Mutant: a fresh connection does not arm the idle timer.
connect_returned_NoArm(s, self, outcome) ==
    CASE outcome = "ok" ->
           Resume([s EXCEPT !.transport.connected = TRUE], self, "ensured")
      [] outcome = "notlive" -> AttemptFailed(s, self, FailedToConnect)
      [] outcome = "timeout" -> AttemptFailed(s, self, ConnectTimeout)
      [] outcome = "error" -> AttemptFailed(s, self, TransportError("connect"))

connect_returned(s, self, outcome) ==
    CASE outcome = "ok" ->
           Resume(_arm_idle_timer_locked([s EXCEPT !.transport.connected = TRUE], self),
                  self, "ensured")
      [] outcome = "notlive" -> AttemptFailed(s, self, FailedToConnect)
      [] outcome = "timeout" -> AttemptFailed(s, self, ConnectTimeout)
      [] outcome = "error" -> AttemptFailed(s, self, TransportError("connect"))

\* Lines 103-105, from the return of _client.disconnect() on: it returned
\* ("ok", the link is down) or raised ("error", the link is as it was); the
\* finally clause runs, and the exception, if any, goes on to the caller.
disconnect_finished(s, outcome) ==
    DisconnectFinally(IF outcome = "ok" THEN [s EXCEPT !.transport.connected = FALSE] ELSE s,
                      outcome)

\* The coroutine goes on from its await of _disconnect_client.
disconnect_returned(s, self, outcome) ==
    LET s1 == disconnect_finished(s, outcome)
        site == IF self \in Callers THEN s.caller[self].site ELSE "worker79"
    IN  IF outcome = "ok" THEN Resume(s1, self, site)
        ELSE Raise(s1, self, TransportError("disconnect"))

\* Mutant: a failed write is surfaced at once, without the retry.
write_returned_NoRetry(s, self, outcome) ==
    IF outcome = "ok" THEN Suspend(s, self, "settle", "")
    ELSE Raise(s, self, TransportError("write_gatt_char"))

\* Mutant: every failed write is retried.
write_returned_Retrying(s, self, outcome) ==
    IF outcome = "ok" THEN Suspend(s, self, "settle", "")
    ELSE _disconnect_client(s, self, "send176")

\* Lines 173-178, from the return of a write_gatt_char on.
write_returned(s, self, outcome) ==
    IF outcome = "ok" THEN Suspend(s, self, "settle", "")
    ELSE IF s.caller[self].writes = 1 THEN _disconnect_client(s, self, "send176")
    ELSE Raise(s, self, TransportError("write_gatt_char"))

\* Mutant: the idle timer is not armed again after the write.
settled_NoRearm(s, self) == Finish(s, self, Returned(None, <<"sent">>))

\* Lines 180-183, from the end of the settle delay on.
settled(s, self) ==
    Finish(_arm_idle_timer_locked(s, self), self, Returned(None, <<"sent">>))

\* Lines 54-57: "off", or the seconds with one decimal and an "s".
_idle_timeout_label(s) ==
    IF s.idle_timeout_s = None THEN "off"
    ELSE LET n == s.idle_timeout_s.tenths
             a == IF n < 0 THEN 0 - n ELSE n
         IN  (IF n < 0 THEN "-" ELSE "") \o ToString(a \div 10) \o "."
               \o ToString(a % 10) \o "s"

\* Lines 135-137.
ensure_connected(s, self) == _ensure_connected(s, self)

\* Lines 140-142.
disconnect(s, self) == _disconnect_client(s, self, "disconnect142")

\* Lines 145-148.
reconnect(s, self) == _disconnect_client(s, self, "reconnect147")

\* Lines 151-155.
connection_status(s, self) ==
    Finish(s, self,
           Returned(<<(IF s.client # None /\ s.transport.connected
                       THEN "connected" ELSE "disconnected"),
                      " (idle timeout: ", _idle_timeout_label(s), ")">>, None))

\* Mutant: the label of the value is returned but the value is not stored.
set_idle_timeout_NotStored(s, self) ==
    LET s1 == [s EXCEPT !.idle_timeout_s = s.caller[self].value]
    IN  Finish(_arm_idle_timer_locked(s, self), self,
               Returned(<<_idle_timeout_label(s1)>>, None))

\* Mutant: the value is stored but the idle timer is left as it was.
set_idle_timeout_Lazy(s, self) ==
    LET s1 == [s EXCEPT !.idle_timeout_s = s.caller[self].value]
    IN  Finish(s1, self, Returned(<<_idle_timeout_label(s1)>>, None))

\* Lines 158-163.
set_idle_timeout(s, self) ==
    LET s1 == [s EXCEPT !.idle_timeout_s = s.caller[self].value]
    IN  Finish(_arm_idle_timer_locked(s1, self), self,
               Returned(<<_idle_timeout_label(s1)>>, None))

\* Lines 166-172.
send(s, self) == _ensure_connected(s, self)

\* Lines 75-79: the worker has the lock.
_idle_disconnect_worker(s, self) ==
    IF s.idle_task # self THEN EndTask(s, self, "returned")
    ELSE _disconnect_client(s, self, "worker79")

\* The coroutine self runs on from its "async with _tx_lock".
Locked(s, self) ==
    IF self \in Tasks THEN _idle_disconnect_worker(s, self)
    ELSE CASE s.caller[self].op = "ensure_connected" -> ensure_connected(s, self)
           [] s.caller[self].op = "disconnect" -> disconnect(s, self)
           [] s.caller[self].op = "reconnect" -> reconnect(s, self)
           [] s.caller[self].op = "connection_status" -> connection_status(s, self)
           [] s.caller[self].op = "set_idle_timeout" -> set_idle_timeout(s, self)
           [] s.caller[self].op = "send" -> send(s, self)

\* "async with _tx_lock": on at once when the lock is free, else queue.
AsyncWithLock(s, self) ==
    IF LockFree(s) THEN Locked(Acquire(s), self)
    ELSE Suspend(Enqueue(s, self), self, "lock", "")

\* Lines 283-289 and 300-301: the "color" command.  pkt_color is evaluated
\* before send is called; its ValueError goes straight to the handler of the
\* command loop and send is never entered.
command_color(s, self, r, g, b) ==
    LET pkt == pkt_color(r, g, b)
    IN  IF pkt.raised # None
        THEN [s EXCEPT !.caller[self] =
                [IdleCaller EXCEPT !.pc = "done", !.op = "color",
                                   !.value = <<r, g, b>>, !.result = pkt]]
        ELSE AsyncWithLock([s EXCEPT !.caller[self].op = "send",
                                     !.caller[self].value = pkt.value], self)

-----------------------------------------------------------------------------
\* A caller invokes a public operation.
Call(c, op, value) ==
    /\ caller[c].pc = "idle"
    /\ Set(AsyncWithLock([Cur EXCEPT !.caller[c].op = op, !.caller[c].value = value], c))

\* The user enters "color R G B".
Color(c, r, g, b) ==
    /\ caller[c].pc = "idle"
    /\ Set(command_color(Cur, c, r, g, b))

\* The lock was released and its first waiter takes it.
LockWake(p) ==
    /\ ~_tx_lock.locked
    /\ _tx_lock.waiters # <<>>
    /\ Head(_tx_lock.waiters) = p
    /\ Set(Locked(Acquire([Cur EXCEPT !.tx_lock.waiters = Tail(@)]), p))

\* Line 71: the sleep of an idle worker is over.
TimerExpire(t) ==
    /\ task[t].st = "sleep"
    /\ Set(AsyncWithLock(Cur, t))

\* Line 44: BleakScanner.discover returns what it saw.
ScanReturn(c, devices) ==
    /\ caller[c].pc = "scan"
    /\ Set(resolve_device_address(Cur, c, devices))

ConnectReturn(c, outcome) ==
    /\ caller[c].pc = "connect"
    /\ Set(connect_returned(Cur, c, outcome))

DisconnectReturn(p, outcome) ==
    /\ IF p \in Callers THEN caller[p].pc = "tdisc" ELSE task[p].st = "tdisc"
    /\ Set(disconnect_returned(Cur, p, outcome))

WriteReturn(c, outcome) ==
    /\ caller[c].pc = "write"
    /\ Set(write_returned(Cur, c, outcome))

\* Line 181: POST_WRITE_DELAY_S is over.
SettleDone(c) ==
    /\ caller[c].pc = "settle"
    /\ Set(settled(Cur, c))

\* A finished operation hands its result to the caller (the command loop,
\* lines 223-301), which may then call again.  Returning from a coroutine does
\* not yield to the event loop: nothing else runs before the caller has it.
Return(c) ==
    /\ caller[c].pc = "done"
    /\ caller' = [caller EXCEPT ![c] = IdleCaller]
    /\ UNCHANGED <<_tx_lock, _resolved_device, _client, _idle_timeout_s, _idle_task,
                   task, transport>>

\* A task that ended is gone.
TaskExit(t) ==
    /\ task[t].st \in Ended
    /\ task' = [task EXCEPT ![t] = NoTask]
    /\ UNCHANGED <<_tx_lock, _resolved_device, _client, _idle_timeout_s, _idle_task,
                   caller, transport>>

\* The peripheral goes away: is_connected of the handle turns false.
LinkDrop ==
    /\ Quiet
    /\ transport.connected
    /\ transport' = [transport EXCEPT !.connected = FALSE]
    /\ UNCHANGED <<_tx_lock, _resolved_device, _client, _idle_timeout_s, _idle_task,
                   task, caller>>

\* A link the session no longer references goes away.
OrphanDrop ==
    /\ Quiet
    /\ transport.orphans
    /\ transport' = [transport EXCEPT !.orphans = FALSE]
    /\ UNCHANGED <<_tx_lock, _resolved_device, _client, _idle_timeout_s, _idle_task,
                   task, caller>>

Next ==
    \/ \E c \in Callers : \E op \in Ops \ {"set_idle_timeout"} : Call(c, op, None)
    \/ \E c \in Callers : \E v \in IdleValues : Call(c, "set_idle_timeout", v)
    \/ \E c \in Callers : \E rgb \in RGBs : Color(c, rgb[1], rgb[2], rgb[3])
    \/ \E p \in Procs : LockWake(p)
    \/ \E t \in Tasks : TimerExpire(t)
    \/ \E c \in Callers : \E devices \in ScanResults : ScanReturn(c, devices)
    \/ \E c \in Callers : \E outcome \in ConnectOutcomes : ConnectReturn(c, outcome)
    \/ \E p \in Procs : \E outcome \in {"ok", "error"} : DisconnectReturn(p, outcome)
    \/ \E c \in Callers : \E outcome \in {"ok", "error"} : WriteReturn(c, outcome)
    \/ \E c \in Callers : SettleDone(c)
    \/ LinkDrop
    \/ OrphanDrop
    \/ \E c \in Callers : Return(c)
    \/ \E t \in Tasks : TaskExit(t)

Spec == Init /\ [][Next]_vars

\* The event loop runs every coroutine that is ready: a timer's sleep ends, a
\* released lock goes to its first waiter, the settle delay ends, results are
\* handed over.  The scan returns when its timeout is over (line 44) and the
\* connect is cut off by wait_for (line 120).  Callers need not call, and
\* nothing in the program bounds a write or a transport disconnect.
LoopFairness ==
    /\ \A p \in Procs : WF_vars(LockWake(p))
    /\ \A t \in Tasks : WF_vars(TimerExpire(t)) /\ WF_vars(TaskExit(t))
    /\ \A c \in Callers :
         /\ WF_vars(\E devices \in ScanResults : ScanReturn(c, devices))
         /\ WF_vars(\E outcome \in ConnectOutcomes : ConnectReturn(c, outcome))
         /\ WF_vars(SettleDone(c))
         /\ WF_vars(Return(c))

FairSpec == Spec /\ LoopFairness

\* The same, with a transport that answers every write and every disconnect,
\* with success or with an error.
AnsweringSpec ==
    /\ FairSpec
    /\ \A p \in Procs : WF_vars(\E outcome \in {"ok", "error"} : DisconnectReturn(p, outcome))
    /\ \A c \in Callers : WF_vars(\E outcome \in {"ok", "error"} : WriteReturn(c, outcome))

-----------------------------------------------------------------------------
\* The coroutines inside "async with _tx_lock", suspended at an await.
InCritical(p) ==
    IF p \in Callers
    THEN caller[p].pc \in {"scan", "connect", "tdisc", "write", "settle"}
    ELSE task[p].st = "tdisc"

Writing == {c \in Callers : caller[c].pc = "write"}

\* C1: at most one transport write is in flight at any time, and while a
\* write is in flight its send holds the lock and no other caller and no idle
\* worker is inside the lock.
C1_OneWriteInFlight ==
    /\ Cardinality(Writing) <= 1
    /\ \A c \in Writing :
         /\ _tx_lock.locked
         /\ \A p \in Procs \ {c} : ~InCritical(p)

\* A write is in flight while another send and an idle worker wait for the lock.
C1_Witness ==
    \E c, d \in Callers :
      /\ c # d
      /\ caller[c].pc = "write"
      /\ caller[d].pc = "lock" /\ caller[d].op = "send"
      /\ \E t \in Tasks : task[t].st = "lock"

\* The idle workers that can still act.
LiveTasks == {t \in Tasks : task[t].st \in {"sleep", "lock", "tdisc"}}

Disconnecting == {"tdisc", "notified", "raised"}

\* C2: at most one idle worker is live; a live worker that has not begun its
\* disconnect is the one _idle_task names (a superseded one is dead); and a
\* worker begins the idle disconnect only while _idle_task names it.
C2_SupersededNeverFires ==
    /\ [](/\ Cardinality(LiveTasks) <= 1
          /\ \A t \in Tasks : task[t].st \in {"sleep", "lock"} => _idle_task = t)
    /\ [][\A t \in Tasks :
            (task[t].st \notin Disconnecting /\ task'[t].st \in Disconnecting)
              => _idle_task = t]_vars

\* A worker whose sleep was over and which waited for the lock was cancelled
\* by the holder of the lock, which armed the next one.
C2_Witness ==
    \E t, u \in Tasks :
      /\ task[t].st = "cancelled_in_lock"
      /\ task[u].st = "sleep" /\ _idle_task = u

-----------------------------------------------------------------------------
\* The operations that have just ended, their result in hand.
Done(c, op) == caller[c].pc = "done" /\ caller[c].op = op

Succeeded(c) == caller[c].result.raised = None

TimeoutEnabled == _idle_timeout_s # None /\ _idle_timeout_s.tenths > 0

\* C3, as claimed: when send returns successfully the idle timer is armed iff
\* the idle timeout is not disabled and is greater than 0.
C3_ArmedIffTimeout ==
    \A c \in Callers :
      (Done(c, "send") /\ Succeeded(c)) => (_idle_task # None <=> TimeoutEnabled)

\* C3, amended: when send returns successfully the idle timer is armed iff
\* the idle timeout is not disabled, is greater than 0, and the link is still
\* up when send re-arms.
C3_ArmedIffTimeoutAndLink ==
    \A c \in Callers :
      (Done(c, "send") /\ Succeeded(c))
        => (_idle_task # None <=> (TimeoutEnabled /\ _client # None /\ transport.connected))

\* A send returned successfully with the idle timer armed.
C3_Witness ==
    \E c \in Callers :
      /\ Done(c, "send") /\ Succeeded(c)
      /\ _idle_task # None /\ task[_idle_task].st = "sleep"

\* C4: a send whose second write has succeeded returns without an exception,
\* and a send ends with the exception of a write only when that write was its
\* second.
C4_RetryTransparent ==
    /\ [](\A c \in Callers :
            (Done(c, "send") /\ caller[c].result.raised = TransportError("write_gatt_char"))
              => caller[c].writes = 2)
    /\ [][\A c \in Callers :
            (caller[c].pc = "settle" /\ caller'[c].pc # "settle")
              => (caller'[c].pc = "done" /\ caller'[c].result.raised = None
                  /\ caller'[c].writes = caller[c].writes)]_vars

\* A send returned successfully after its first write failed.
C4_Witness ==
    \E c \in Callers : Done(c, "send") /\ Succeeded(c) /\ caller[c].writes = 2

\* C5: when the first attempt of _ensure_connected fails, the second starts
\* with no cached device and scans; and an ensure_connected whose connect
\* ends connected returns without an exception.
C5_SecondAttemptRescans ==
    [][\A c \in Callers :
         /\ (caller[c].attempt = 1 /\ caller'[c].attempt = 2)
              => (_resolved_device' = None /\ caller'[c].pc = "scan")
         /\ (caller[c].pc = "connect" /\ caller[c].op = "ensure_connected"
               /\ caller'[c].pc = "done")
              => (caller'[c].result.raised = None <=> transport'.connected)]_vars

\* An ensure_connected returned successfully from its second attempt.
C5_Witness ==
    \E c \in Callers :
      Done(c, "ensure_connected") /\ Succeeded(c) /\ caller[c].attempt = 2

-----------------------------------------------------------------------------
AtTransportDisconnect(p) ==
    IF p \in Callers THEN caller[p].pc = "tdisc" ELSE task[p].st = "tdisc"

DisconnectFailed(c) ==
    caller[c].pc = "done" /\ caller[c].result.raised = TransportError("disconnect")

\* C7: when a disconnect has finished - disconnect() returned or raised, an
\* operation ended with the exception of the transport disconnect, the idle
\* worker ended its disconnect, or the transport disconnect inside any
\* operation comes back with either outcome - _client is None and no idle
\* timer is armed.
C7_DisconnectClearsState ==
    /\ \A c \in Callers :
         (Done(c, "disconnect") \/ DisconnectFailed(c))
           => (_client = None /\ _idle_task = None)
    /\ \A t \in Tasks :
         task[t].st \in {"notified", "raised"} => (_client = None /\ _idle_task = None)
    /\ \A p \in Procs :
         AtTransportDisconnect(p)
           => \A outcome \in {"ok", "error"} :
                /\ disconnect_finished(Cur, outcome).client = None
                /\ disconnect_finished(Cur, outcome).idle_task = None

\* disconnect() ended with the exception of the transport disconnect and the
\* handle is cleared.
C7_Witness ==
    \E c \in Callers :
      Done(c, "disconnect") /\ DisconnectFailed(c) /\ _client = None /\ _idle_task = None

\* C8, as claimed: the exception of a transport disconnect never reaches the
\* caller of an operation and never ends the idle worker.
C8_DisconnectErrorSwallowed ==
    /\ \A c \in Callers : ~DisconnectFailed(c)
    /\ \A t \in Tasks : task[t].st # "raised"

NotFoundFailure(c) ==
    /\ Done(c, "ensure_connected")
    /\ caller[c].result.raised # None
    /\ caller[c].last_error = NotFound

\* C9, as claimed: an ensure_connected whose last attempt found no matching
\* peripheral reports the not-found error.
C9_ReportsNotFound ==
    \A c \in Callers : NotFoundFailure(c) => caller[c].result.raised = NotFound

\* C9, amended: it reports the connect error, "Unable to connect: " followed
\* by the text of the not-found error.
C9_ReportsConnectError ==
    \A c \in Callers :
      NotFoundFailure(c)
        => caller[c].result.raised =
             Exception("RuntimeError",
                       <<"Unable to connect: ",
                         "No BLE device found matching names: MELK-OA21">>)

\* ensure_connected failed after two scans that found no matching peripheral.
C9_Witness ==
    \E c \in Callers : NotFoundFailure(c) /\ caller[c].attempt = 2 /\ _resolved_device = None

CallersIdle == \A c \in Callers : caller[c].pc = "idle"

\* C6: once a connection is up with its idle timer running and no operation
\* follows, the timer's worker ends having printed "auto-disconnected".
C6_IdleDisconnectNotifies ==
    \A t \in Tasks :
      (_idle_task = t /\ task[t].st = "sleep" /\ transport.connected /\ CallersIdle)
        ~> (~CallersIdle \/ (task[t].st = "notified" /\ _client = None))

\* C10: every invocation of a public operation ends, with a result or an
\* exception.
C10_EveryCallReturns ==
    \A c \in Callers : (caller[c].pc \notin {"idle", "done"}) ~> (caller[c].pc = "done")

-----------------------------------------------------------------------------
\* C11: set_idle_timeout stores its value and returns the label of it ("5.0s"
\* for 5.0, "off" for None); nothing but a set_idle_timeout changes the stored
\* value; and connection_status reports the label of the stored value.  So a
\* status reports the label the last set_idle_timeout returned, whatever ran
\* in between.
C11_StatusReportsLastLabel ==
    /\ [](\A c \in Callers :
            /\ Done(c, "set_idle_timeout")
                 => /\ _idle_timeout_s = caller[c].value
                    /\ caller[c].result.value = <<_idle_timeout_label(Cur)>>
                    /\ (caller[c].value = Float(50) => caller[c].result.value = <<"5.0s">>)
                    /\ (caller[c].value = None => caller[c].result.value = <<"off">>)
            /\ Done(c, "connection_status")
                 => caller[c].result.value[3] = _idle_timeout_label(Cur))
    /\ [][_idle_timeout_s' # _idle_timeout_s
            => \E c \in Callers :
                 /\ caller[c].pc # "done"
                 /\ caller'[c].pc = "done" /\ caller'[c].op = "set_idle_timeout"]_vars

\* A status reports "5.0s" after the idle worker of a set_idle_timeout(5.0)
\* has disconnected the session.
C11_Witness ==
    \E c \in Callers :
      /\ Done(c, "connection_status")
      /\ caller[c].result.value = <<"disconnected", " (idle timeout: ", "5.0s", ")">>
      /\ _resolved_device # None

-----------------------------------------------------------------------------
BadChannel(v) == ~(0 <= v /\ v <= 255)

Rejected(c) ==
    /\ caller[c].pc = "done" /\ caller[c].op = "color"
    /\ caller[c].result.raised = Exception("ValueError", <<"RGB values must be in 0..255">>)

\* C12: every payload a send carries holds bytes only, so no colour with a
\* channel outside 0..255 reaches send; and the step that rejects a colour
\* command ends it with ValueError and leaves the lock, the handle, the timer,
\* the cache, the transport and every other coroutine as they were.
C12_BadColorRejected ==
    /\ [](\A c \in Callers :
            /\ caller[c].op = "send" => \A i \in DOMAIN caller[c].value :
                                          ~BadChannel(caller[c].value[i])
            /\ caller[c].op = "color"
                 => /\ Rejected(c)
                    /\ \E i \in 1..3 : BadChannel(caller[c].value[i]))
    /\ [][\A c \in Callers :
            (caller[c].pc = "idle" /\ caller'[c].op = "color")
              => /\ Rejected(c)'
                 /\ UNCHANGED <<_tx_lock, _resolved_device, _client, _idle_timeout_s,
                                _idle_task, task, transport>>
                 /\ \A d \in Callers \ {c} : caller'[d] = caller[d]]_vars

\* "color 300 0 0" was rejected while the session was connected with its idle
\* timer running.
C12_Witness ==
    \E c \in Callers :
      /\ Rejected(c) /\ caller[c].value = <<300, 0, 0>>
      /\ _client # None /\ transport.connected /\ _idle_task # None

-----------------------------------------------------------------------------
WriteFailed(c) ==
    Done(c, "send") /\ caller[c].result.raised = TransportError("write_gatt_char")

\* C13: a send never starts a third write; a send that ends with an exception
\* has printed nothing; after its first write fails it goes on to the forced
\* disconnect and the new connection without another write yet; and after its
\* second write fails it ends with the exception of that write.
C13_AtMostTwoWrites ==
    /\ [](\A c \in Callers :
            /\ caller[c].writes <= 2
            /\ (Done(c, "send") /\ ~Succeeded(c)) => caller[c].result.printed = None)
    /\ [][\A c \in Callers :
            (caller[c].pc = "write" /\ caller'[c] # caller[c] /\ caller'[c].pc # "settle")
              => IF caller[c].writes = 1
                 THEN /\ caller'[c].pc \in {"tdisc", "scan", "connect"}
                      /\ caller'[c].writes = 1
                 ELSE /\ WriteFailed(c)'
                      /\ caller'[c].writes = 2
                      /\ caller'[c].result.printed = None]_vars

\* A send ended with the exception of its second write.
C13_Witness ==
    \E c \in Callers : WriteFailed(c) /\ caller[c].writes = 2

-----------------------------------------------------------------------------
ConnectCauses == {FailedToConnect, ConnectTimeout, TransportError("connect")}

\* C14: no _ensure_connected makes a third attempt; an ensure_connected that
\* fails has made two and raises the connect error made of its last cause;
\* and that cause is the one of the second attempt: not-found when the second
\* attempt ended in its scan, a cause of the connect when it ended there.
C14_TwoAttemptsLastCause ==
    /\ [](\A c \in Callers :
            /\ caller[c].attempt <= 2
            /\ (Done(c, "ensure_connected") /\ ~Succeeded(c))
                 => /\ caller[c].attempt = 2
                    /\ caller[c].last_error # None
                    /\ caller[c].result.raised =
                         Exception("RuntimeError",
                                   <<"Unable to connect: ">> \o caller[c].last_error.msg))
    /\ [][\A c \in Callers :
            (caller[c].pc \in {"scan", "connect"} /\ caller'[c].pc = "done"
               /\ caller'[c].result.raised # None)
              => /\ caller[c].attempt = 2 /\ caller'[c].attempt = 2
                 /\ caller'[c].last_error \in
                      (IF caller[c].pc = "scan" THEN {NotFound} ELSE ConnectCauses)
                 /\ caller'[c].result.raised =
                      Exception("RuntimeError",
                                <<"Unable to connect: ">> \o caller'[c].last_error.msg)]_vars

\* An ensure_connected failed with the timeout of its second connect.
C14_Witness ==
    \E c \in Callers :
      /\ Done(c, "ensure_connected") /\ caller[c].attempt = 2
      /\ caller[c].result.raised = Exception("RuntimeError", <<"Unable to connect: ", "">>)
      /\ caller[c].last_error = ConnectTimeout

-----------------------------------------------------------------------------
\* A reconnect between its disconnect step and the end of its connect.
ReconnectInside(c) ==
    caller[c].op = "reconnect" /\ caller[c].pc \in {"tdisc", "scan", "connect"}

\* C15: while a reconnect is between its disconnect and the end of its
\* connect it holds the lock, no other coroutine is inside the lock, and no
\* idle worker is alive; a step that is not the reconnect's own leaves the
\* session as it is, other callers at most queueing for the lock or having a
\* colour rejected; and when the reconnect ends, the only idle worker alive is
\* the one it armed.
C15_ReconnectAtomic ==
    /\ [](\A c \in Callers :
            /\ ReconnectInside(c)
                 => /\ _tx_lock.locked
                    /\ \A p \in Procs \ {c} : ~InCritical(p)
                    /\ LiveTasks = {} /\ _idle_task = None
            /\ Done(c, "reconnect") => LiveTasks \subseteq {_idle_task})
    /\ [][\A c \in Callers :
            (ReconnectInside(c) /\ caller'[c] = caller[c])
              => /\ UNCHANGED <<_tx_lock.locked, _resolved_device, _client,
                                _idle_timeout_s, _idle_task>>
                 /\ \A t \in Tasks : task'[t] = task[t] \/ task'[t] = NoTask
                 /\ \A d \in Callers \ {c} :
                      \/ caller'[d] = caller[d]
                      \/ caller'[d].pc = "lock"
                      \/ caller'[d].op = "color"
                      \/ caller[d].op = "color" /\ caller'[d] = IdleCaller]_vars

\* A reconnect is connecting while a status waits for the lock.
C15_Witness ==
    \E c, d \in Callers :
      /\ ReconnectInside(c) /\ caller[c].pc = "connect"
      /\ caller[d].pc = "lock" /\ caller[d].op = "connection_status"

-----------------------------------------------------------------------------
\* C16: while the idle timeout is disabled or not positive no idle timer is
\* armed and no idle worker is alive; a set_idle_timeout of a positive value
\* on a live connection returns with exactly one worker alive, armed and
\* sleeping for the new duration; and the worker that was armed before a
\* set_idle_timeout is not the one armed after it.
C16_SetIdleTimeoutImmediate ==
    /\ [](/\ ~TimeoutEnabled => (_idle_task = None /\ LiveTasks = {})
          /\ \A c \in Callers :
               (Done(c, "set_idle_timeout") /\ TimeoutEnabled
                  /\ _client # None /\ transport.connected)
                 => /\ _idle_task # None
                    /\ LiveTasks = {_idle_task}
                    /\ task[_idle_task] = [st |-> "sleep", timeout_s |-> caller[c].value])
    /\ [][\A c \in Callers :
            (caller[c].pc # "done" /\ Done(c, "set_idle_timeout")' /\ _idle_task # None)
              => /\ _idle_task' # _idle_task
                 /\ task'[_idle_task].st \in {"cancelled_in_sleep", "cancelled_in_lock"}]_vars

\* set_idle_timeout(5.0) on a live connection replaced the sleeping worker.
C16_Witness ==
    \E c \in Callers :
      /\ Done(c, "set_idle_timeout") /\ caller[c].value = Float(50)
      /\ transport.connected /\ _idle_task # None
      /\ \E t \in Tasks : task[t].st = "cancelled_in_sleep"

-----------------------------------------------------------------------------
Armed == _idle_task # None /\ task[_idle_task].st \in {"sleep", "lock"}

\* C17: whenever the lock is not held, a session with a live connection and
\* an idle timeout that is enabled and positive has an idle timer armed.
C17_ConnectionHasTimer ==
    (~_tx_lock.locked /\ _client # None /\ transport.connected /\ TimeoutEnabled)
      => Armed

\* A send failed on its second write, the link is up and the timer is armed.
C17_Witness ==
    \E c \in Callers :
      /\ WriteFailed(c) /\ ~_tx_lock.locked
      /\ _client # None /\ transport.connected /\ Armed

\* C18: whenever the lock is not held and _idle_task names a task, _client is
\* not None, the idle timeout is enabled and positive, and the task named has
\* neither ended nor been cancelled.
C18_TimerHasSession ==
    (~_tx_lock.locked /\ _idle_task # None)
      => /\ _client # None
         /\ TimeoutEnabled
         /\ task[_idle_task].st \in {"sleep", "lock"}

\* A status released the lock with the armed worker, its sleep over, first in
\* the queue of the lock.
C18_Witness ==
    /\ ~_tx_lock.locked /\ _idle_task # None
    /\ task[_idle_task].st = "lock"
    /\ _tx_lock.waiters # <<>> /\ Head(_tx_lock.waiters) = _idle_task
    /\ \E c \in Callers : Done(c, "connection_status")

\* C19, as claimed: no link is open that the session's handle does not
\* reference, and no connect is under way while a link is open.
C19_NoLeakedConnection ==
    /\ ~transport.orphans
    /\ transport.connected => _client # None
    /\ \A c \in Callers : caller[c].pc = "connect" => ~transport.connected

-----------------------------------------------------------------------------
ConnectFailed(c) ==
    /\ caller[c].pc = "done" /\ caller[c].op \in {"ensure_connected", "reconnect", "send"}
    /\ caller[c].result.raised # None
    /\ caller[c].result.raised.msg[1] = "Unable to connect: "

\* C20: when an operation ends with the connect error, _client is None, no
\* idle timer is armed and no idle worker is alive, the cached device is
\* cleared, and the lock is released.
C20_CleanAfterConnectError ==
    \A c \in Callers :
      ConnectFailed(c)
        => /\ _client = None
           /\ _idle_task = None /\ LiveTasks = {}
           /\ _resolved_device = None
           /\ ~_tx_lock.locked

\* A send ended with the connect error of the reconnect after its first write
\* failed, another caller waiting for the lock.
C20_Witness ==
    \E c, d \in Callers :
      /\ ConnectFailed(c) /\ caller[c].op = "send" /\ caller[c].writes = 1
      /\ caller[d].pc = "lock"

====
